---- MODULE Spec2Model ----
(***************************************************************************)
(* Model of entities.rs: the two Tauri commands create_location_group and  *)
(* create_schedule_group.  Each command builds a JSON payload, builds four *)
(* headers, POSTs once, and turns the response into Ok(id) or Err(text).  *)
(*                                                                         *)
(* Representation.                                                         *)
(*  - A Rust String that the code only forwards is an atomic TLA+ string.  *)
(*    The token, whose bytes HeaderValue::from_str inspects, is a sequence *)
(*    of byte values.  A composed message (format!) is the sequence of its *)
(*    parts.                                                               *)
(*  - A serde_json::Value is a tagged record (k = "Null", "Bool",         *)
(*    "Number", "String", "Array", "Object").  A Number keeps serde_json's *)
(*    three variants PosInt(u64), NegInt(i64), Float(f64).                 *)
(*  - JSON text (a response body, a serialized struct) is a sequence of    *)
(*    lexical tokens; FromJson turns it into a Value or fails.             *)
(*  - i64 and u64 are scaled to IntBits bits so that the range checks of   *)
(*    as_i64 and of the number parser are exercised on both sides.         *)
(*  - HeaderMap::insert is modelled as insertion into a map and            *)
(*    response.status() as readable after response.text(), as the source   *)
(*    is written.                                                          *)
(***************************************************************************)
EXTENDS Integers, Sequences, FiniteSets, TLC

(* ------------------------------ bounds -------------------------------- *)
\* number of concurrent invocations in SpecConc
NumCalls == 2
\* width of the scaled i64 / u64
IntBits == 8
\* longest location_ids sequence
MaxIds == 2
\* longest token, in bytes
MaxTokenLen == 2

I64Max == 2^(IntBits - 1) - 1
I64Min == -(2^(IntBits - 1))
U64Max == 2^IntBits - 1

Calls == 1..NumCalls

(* --------------------------- serde_json::Value ------------------------ *)
PosInt(n) == [v |-> "PosInt", i |-> n]
NegInt(n) == [v |-> "NegInt", i |-> n]
Float == [v |-> "Float"]

JNull == [k |-> "Null"]
JBool(b) == [k |-> "Bool", b |-> b]
JNumber(n) == [k |-> "Number", n |-> n]
JString(s) == [k |-> "String", s |-> s]
JArray(a) == [k |-> "Array", a |-> a]
JObject(o) == [k |-> "Object", o |-> o]

\* impl From<i64> for Number, as used by json!(id) and by Serialize for i64
NumberFromI64(n) == IF n < 0 THEN NegInt(n) ELSE PosInt(n)

\* as_i64 with a wrapping cast of the u64 instead of the range check
as_i64_wrapping(v) ==
    IF v.k # "Number" \/ v.n.v = "Float" THEN [some |-> FALSE]
    ELSE IF v.n.i <= I64Max THEN [some |-> TRUE, x |-> v.n.i]
    ELSE [some |-> TRUE, x |-> v.n.i - 2^IntBits]

\* Value::as_i64
as_i64(v) ==
    IF v.k # "Number" THEN [some |-> FALSE]
    ELSE IF v.n.v = "PosInt"
         THEN (IF v.n.i <= I64Max THEN [some |-> TRUE, x |-> v.n.i]
                                  ELSE [some |-> FALSE])
    ELSE IF v.n.v = "NegInt" THEN [some |-> TRUE, x |-> v.n.i]
    ELSE [some |-> FALSE]

\* Value::get(&str): Some only on an object that has the key
get(v, key) ==
    IF v.k = "Object" /\ key \in DOMAIN v.o
    THEN [some |-> TRUE, x |-> v.o[key]]
    ELSE [some |-> FALSE]

(* ------------------------------ JSON text ----------------------------- *)
LBrace == [t |-> "{"]
RBrace == [t |-> "}"]
LBracket == [t |-> "["]
RBracket == [t |-> "]"]
Colon == [t |-> ":"]
Comma == [t |-> ","]
\* a string literal
Str(s) == [t |-> "str", s |-> s]
\* a number literal: sign, magnitude of the integer part, fraction/exponent
Num(neg, mag, frac) == [t |-> "num", neg |-> neg, mag |-> mag, frac |-> frac]
\* bare text: null, true, false, or anything else
Word(s) == [t |-> "word", s |-> s]

\* the characters of one token, as message parts
Lexeme(tok) ==
    IF tok.t = "str" THEN <<"\"", tok.s, "\"">>
    ELSE IF tok.t = "word" THEN <<tok.s>>
    ELSE IF tok.t = "num"
         THEN (IF tok.neg THEN <<"-">> ELSE <<>>) \o <<ToString(tok.mag)>>
              \o (IF tok.frac THEN <<".5">> ELSE <<>>)
    ELSE <<tok.t>>

RECURSIVE Text(_)
Text(toks) == IF toks = <<>> THEN <<>> ELSE Lexeme(Head(toks)) \o Text(Tail(toks))

\* serde_json's number parser: an integer literal becomes PosInt when it fits
\* u64, NegInt when negative and it fits i64, and Float otherwise
ParseNumber(tok) ==
    IF tok.frac THEN Float
    ELSE IF ~tok.neg THEN (IF tok.mag <= U64Max THEN PosInt(tok.mag) ELSE Float)
    ELSE IF tok.mag <= I64Max + 1 THEN NegInt(-tok.mag)
    ELSE Float

Fail == [ok |-> FALSE]
Parsed(v, rest) == [ok |-> TRUE, v |-> v, rest |-> rest]

\* insert into a serde_json Map: a repeated key keeps the last value
MapInsert(o, key, v) == [x \in (DOMAIN o) \cup {key} |-> IF x = key THEN v ELSE o[x]]
EmptyMap == [x \in {} |-> JNull]

RECURSIVE ParseValue(_), ParseMembers(_, _), ParseElements(_, _)
ParseValue(ts) ==
    IF ts = <<>> THEN Fail
    ELSE LET h == Head(ts)
             r == Tail(ts)
         IN CASE h.t = "num" -> Parsed(JNumber(ParseNumber(h)), r)
              [] h.t = "str" -> Parsed(JString(h.s), r)
              [] h.t = "word" ->
                    (IF h.s = "null" THEN Parsed(JNull, r)
                     ELSE IF h.s = "true" THEN Parsed(JBool(TRUE), r)
                     ELSE IF h.s = "false" THEN Parsed(JBool(FALSE), r)
                     ELSE Fail)
              [] h.t = "{" ->
                    (IF r # <<>> /\ Head(r) = RBrace
                     THEN Parsed(JObject(EmptyMap), Tail(r))
                     ELSE ParseMembers(r, EmptyMap))
              [] h.t = "[" ->
                    (IF r # <<>> /\ Head(r) = RBracket
                     THEN Parsed(JArray(<<>>), Tail(r))
                     ELSE ParseElements(r, <<>>))
              [] OTHER -> Fail

\* members of an object after "{" or ",": "key" : value , ... }
ParseMembers(ts, o) ==
    IF Len(ts) < 2 \/ ts[1].t # "str" \/ ts[2] # Colon THEN Fail
    ELSE LET key == ts[1].s
             pv == ParseValue(SubSeq(ts, 3, Len(ts)))
         IN IF ~pv.ok \/ pv.rest = <<>> THEN Fail
            ELSE IF Head(pv.rest) = RBrace
                 THEN Parsed(JObject(MapInsert(o, key, pv.v)), Tail(pv.rest))
            ELSE IF Head(pv.rest) = Comma
                 THEN ParseMembers(Tail(pv.rest), MapInsert(o, key, pv.v))
            ELSE Fail

\* elements of an array after "[" or ",": value , ... ]
ParseElements(ts, a) ==
    LET pv == ParseValue(ts)
    IN IF ~pv.ok \/ pv.rest = <<>> THEN Fail
       ELSE IF Head(pv.rest) = RBracket
            THEN Parsed(JArray(Append(a, pv.v)), Tail(pv.rest))
       ELSE IF Head(pv.rest) = Comma
            THEN ParseElements(Tail(pv.rest), Append(a, pv.v))
       ELSE Fail

\* serde_json::from_slice: one value, nothing after it
FromJson(ts) ==
    LET pv == ParseValue(ts)
    IN IF pv.ok /\ pv.rest = <<>> THEN [ok |-> TRUE, v |-> pv.v] ELSE Fail

(* --------------------------- request structs -------------------------- *)
SeqsUpTo(S, n) == UNION {[1..k -> S] : k \in 0..n}

Descriptions == {"Test Group", ""}
IdValues == {I64Min, 1, I64Max}
Dates == {"2025-01-01", "2025-12-31", "yesterday"}
LearningPeriods == {"30", "", "abc"}

\* struct LocationGroupRequest
LocationGroupRequest ==
    [description : Descriptions, location_ids : SeqsUpTo(IdValues, MaxIds)]

\* struct ScheduleGroupRequest
ScheduleGroupRequest ==
    [description : {"Test Schedule"}, location_group_id : {42, -1},
     start_date : Dates, end_date : Dates, learning_period : LearningPeriods]

\* struct LocationGroupResponse / ScheduleGroupResponse inside Result::Ok
Ok(field, id) == [ok |-> TRUE, v |-> [f \in {field} |-> id]]
\* Result::Err(String); the text is the sequence of its parts
Err(msg) == [ok |-> FALSE, msg |-> msg]

(* ------------------------------- payload ------------------------------ *)
\* the locations collected in reverse order
LocationsOfReversed(ids) ==
    [i \in 1..Len(ids) |->
        JObject([LocationID |-> JNumber(NumberFromI64(ids[Len(ids) + 1 - i]))])]

\* request.location_ids.iter().map(|id| json!({"LocationID": id})).collect()
LocationsOf(ids) ==
    [i \in 1..Len(ids) |-> JObject([LocationID |-> JNumber(NumberFromI64(ids[i]))])]

LocationGroupPayload(req) ==
    JObject([Description |-> JString(req.description),
             Active |-> JBool(TRUE),
             Locations |-> JArray(LocationsOf(req.location_ids))])

AdhocFieldsOf(req) ==
    JArray(<<JObject([FieldName |-> JString("adhoc_LearningPeriod"),
                      Value |-> JString(req.learning_period)])>>)

\* the payload with the two dates exchanged
ScheduleGroupPayloadSwapped(req) ==
    JObject([Description |-> JString(req.description),
             Active |-> JBool(TRUE),
             LocationGroupID |-> JNumber(NumberFromI64(req.location_group_id)),
             GroupStartDate |-> JString(req.end_date),
             GroupEndDate |-> JString(req.start_date),
             AdhocFields |-> AdhocFieldsOf(req)])

ScheduleGroupPayload(req) ==
    JObject([Description |-> JString(req.description),
             Active |-> JBool(TRUE),
             LocationGroupID |-> JNumber(NumberFromI64(req.location_group_id)),
             GroupStartDate |-> JString(req.start_date),
             GroupEndDate |-> JString(req.end_date),
             AdhocFields |-> AdhocFieldsOf(req)])

(* ------------------------------- headers ------------------------------ *)
\* the bytes a token is made of here: TAB, LF, space, 'a', DEL, and 0xC3, the
\* first byte of a two-byte UTF-8 character
TokenBytes == {9, 10, 32, 97, 127, 195}
Tokens == SeqsUpTo(TokenBytes, MaxTokenLen)

\* http::header::value::is_valid
ByteOk(b) == (b >= 32 /\ b # 127) \/ b = 9

\* HeaderValue::from_str
HeaderValue_from_str(bytes) ==
    IF \A i \in 1..Len(bytes) : ByteOk(bytes[i])
    THEN [ok |-> TRUE, v |-> bytes]
    ELSE [ok |-> FALSE, e |-> "failed to parse header value"]

\* format!("Bearer {}", token): the bytes of "Bearer " and then the token
Bearer(tok) == <<66, 101, 97, 114, 101, 114, 32>> \o tok

EmptyHeaders == [n \in {} |-> <<>>]
HeaderInsert(m, name, v) ==
    [n \in (DOMAIN m) \cup {name} |-> IF n = name THEN v ELSE m[n]]

\* the two token-derived values built in the other order
BuildHeadersAuthFirst(tok) ==
    LET t == HeaderValue_from_str(tok)
        a == HeaderValue_from_str(Bearer(tok))
    IN IF ~a.ok THEN [ok |-> FALSE, msg |-> <<"Invalid authorization header: ", a.e>>]
       ELSE IF ~t.ok THEN [ok |-> FALSE, msg |-> <<"Invalid token header: ", t.e>>]
       ELSE [ok |-> TRUE,
             headers |-> [n \in {"AuthenticationToken", "Authorization", "Accept",
                                 "Content-Type"} |->
                            IF n = "AuthenticationToken" THEN t.v
                            ELSE IF n = "Authorization" THEN a.v
                            ELSE "application/json"]]

\* lines 61-80 (155-174): the four inserts, each `?` returning early
BuildHeaders(tok) ==
    LET t == HeaderValue_from_str(tok)
        a == HeaderValue_from_str(Bearer(tok))
    IN IF ~t.ok THEN [ok |-> FALSE, msg |-> <<"Invalid token header: ", t.e>>]
       ELSE IF ~a.ok
            THEN [ok |-> FALSE, msg |-> <<"Invalid authorization header: ", a.e>>]
       ELSE [ok |-> TRUE,
             headers |->
                HeaderInsert(
                  HeaderInsert(
                    HeaderInsert(
                      HeaderInsert(EmptyHeaders, "AuthenticationToken", t.v),
                      "Authorization", a.v),
                    "Accept", "application/json"),
                  "Content-Type", "application/json")]

(* --------------------------------- URL -------------------------------- *)
\* a base URL is the sequence of its parts; the second one has no scheme
BaseUrls == {<<"https://", "nimbus.example">>, <<"nimbus.example", "/api">>}

Endpoint(o) == IF o = "location" THEN "/RESTApi/LocationGroup"
                                 ELSE "/RESTApi/ScheduleGroup"
\* format!("{}/RESTApi/LocationGroup", base_url)
UrlOf(o, base) == base \o <<Endpoint(o)>>
\* client.post(&url): a relative URL without a base does not parse, and the
\* builder then carries the error to send(), which returns it without a request
UrlParses(url) == Len(url) > 0 /\ url[1] \in {"http://", "https://"}

(* ------------------------------ response ------------------------------ *)
Statuses == {199, 200, 201, 299, 300, 404}

\* a status check that only rejects 4xx and 5xx
is_success_below_400(status) == status < 400

\* StatusCode::is_success
is_success(status) == 200 <= status /\ status < 300

\* impl Display for StatusCode: the code and its canonical reason
StatusDisplay(status) ==
    <<ToString(status), " ",
      CASE status = 200 -> "OK"
        [] status = 201 -> "Created"
        [] status = 300 -> "Multiple Choices"
        [] status = 404 -> "Not Found"
        [] OTHER -> "<unknown status code>">>

IdFields == {"LocationGroupID", "ScheduleGroupID"}
\* both commands looking for the location group's field
IdFieldCopied(o) == "LocationGroupID"
IdField(o) == IF o = "location" THEN "LocationGroupID" ELSE "ScheduleGroupID"

\* values a server may put in the identifier field
FieldTokens ==
    {Num(FALSE, 123, FALSE), Num(FALSE, I64Max, FALSE), Num(FALSE, I64Max + 1, FALSE),
     Num(TRUE, I64Max + 1, FALSE), Num(FALSE, U64Max + 1, FALSE),
     Num(FALSE, 1, TRUE), Str("123"), Word("null")}

Bodies ==
    {<<LBrace, Str(f), Colon, v, RBrace>> : f \in IdFields, v \in FieldTokens}
    \cup {<<LBrace, RBrace>>,
          <<Word("not found")>>,
          <<>>,
          <<Num(FALSE, 123, FALSE)>>,
          <<LBracket, Num(FALSE, 123, FALSE), RBracket>>,
          <<LBrace, Str("LocationGroupID"), Colon, Num(FALSE, 123, FALSE)>>,
          <<LBrace, Str("ScheduleGroupID"), Colon, Num(FALSE, 77, FALSE), Comma,
            Str("LocationGroupID"), Colon, Num(FALSE, 123, FALSE), RBrace>>}

NoResponse ==
    [failed |-> FALSE, status |-> 0, read |-> FALSE, readable |-> FALSE, body |-> <<>>]

\* lines 94-102: response.text().await.unwrap_or_else(..), then the Err
ApiError(status, readable, body) ==
    Err(<<"API error (">> \o StatusDisplay(status) \o <<"): ">>
        \o (IF readable THEN Text(body) ELSE <<"Unknown error">>))

\* lines 106-116: response.json().await, then get(field).and_then(as_i64)
ExtractId(o, readable, body) ==
    LET parsed == IF readable THEN FromJson(body) ELSE Fail
    IN IF ~parsed.ok
       THEN Err(<<"Failed to parse response: ", "error decoding response body">>)
       ELSE LET f == get(parsed.v, IdField(o))
                id == IF f.some THEN as_i64(f.x) ELSE [some |-> FALSE]
            IN IF id.some
               THEN Ok(IF o = "location" THEN "location_group_id"
                                         ELSE "schedule_group_id", id.x)
               ELSE Err(<<IdField(o), " not found in response">>)

SendErrPrefix(o) == IF o = "location" THEN "Failed to create location group: "
                                      ELSE "Failed to create schedule group: "

(* -------------------------------- state ------------------------------- *)
VARIABLES
    pc,        \* per call: idle, start, await_send, await_text, await_json, done
    args,      \* per call: the arguments moved into the future
    payload,   \* per call: the local `payload`
    headers,   \* per call: the local `headers`
    sent,      \* per call: the requests handed to the transport by send()
    response,  \* per call: the local `response` and what reading its body gave
    result,    \* per call: the returned Result
    serde      \* a LocationGroupRequest / ScheduleGroupRequest under to_string / from_str

vars == <<pc, args, payload, headers, sent, response, result, serde>>

NoArgs == [op |-> "none", base_url |-> <<>>, token |-> <<>>, request |-> <<>>]
Pending == Err(<<>>)

Init ==
    /\ pc = [p \in Calls |-> "idle"]
    /\ args = [p \in Calls |-> NoArgs]
    /\ payload = [p \in Calls |-> JNull]
    /\ headers = [p \in Calls |-> EmptyHeaders]
    /\ sent = [p \in Calls |-> <<>>]
    /\ response = [p \in Calls |-> NoResponse]
    /\ result = [p \in Calls |-> Pending]
    /\ serde = [stage |-> "none"]

PayloadOf(a) == IF a.op = "location" THEN LocationGroupPayload(a.request)
                                     ELSE ScheduleGroupPayload(a.request)

\* a token kept in one place for all calls: the one of the lowest started call
TokenOfShared(p) ==
    args[CHOOSE q \in Calls : pc[q] # "idle" /\ \A r \in Calls : pc[r] # "idle" => q <= r].token

\* what call p reads when it builds its headers: its own `token` argument
TokenOf(p) == args[p].token

\* the host invokes a command: the arguments are moved into a new future
Invoke(p, o, base, tok, req) ==
    /\ pc[p] = "idle"
    /\ args' = [args EXCEPT ![p] = [op |-> o, base_url |-> base, token |-> tok,
                                    request |-> req]]
    /\ pc' = [pc EXCEPT ![p] = "start"]
    /\ UNCHANGED <<payload, headers, sent, response, result, serde>>

\* the first poll with the POST issued before the headers are validated
StartSendsFirst(p) ==
    /\ pc[p] = "start"
    /\ LET a == args[p]
           pl == PayloadOf(a)
           hb == BuildHeaders(TokenOf(p))
           url == UrlOf(a.op, a.base_url)
       IN /\ payload' = [payload EXCEPT ![p] = pl]
          /\ headers' = [headers EXCEPT ![p] = IF hb.ok THEN hb.headers ELSE @]
          /\ sent' = [sent EXCEPT ![p] =
                        IF UrlParses(url)
                        THEN Append(@, [method |-> "POST", url |-> url,
                                        headers |-> headers'[p], json |-> pl])
                        ELSE @]
          /\ IF ~hb.ok
             THEN /\ result' = [result EXCEPT ![p] = Err(hb.msg)]
                  /\ pc' = [pc EXCEPT ![p] = "done"]
             ELSE IF ~UrlParses(url)
             THEN /\ result' = [result EXCEPT ![p] =
                                  Err(<<SendErrPrefix(a.op), "builder error">>)]
                  /\ pc' = [pc EXCEPT ![p] = "done"]
             ELSE /\ pc' = [pc EXCEPT ![p] = "await_send"]
                  /\ UNCHANGED result
    /\ UNCHANGED <<args, response, serde>>

\* first poll, lines 44-89 (134-183): payload, client, headers, POST
Start(p) ==
    /\ pc[p] = "start"
    /\ LET a == args[p]
           pl == PayloadOf(a)
           hb == BuildHeaders(TokenOf(p))
           url == UrlOf(a.op, a.base_url)
       IN /\ payload' = [payload EXCEPT ![p] = pl]
          /\ IF ~hb.ok
             THEN /\ result' = [result EXCEPT ![p] = Err(hb.msg)]
                  /\ pc' = [pc EXCEPT ![p] = "done"]
                  /\ UNCHANGED <<headers, sent>>
             ELSE /\ headers' = [headers EXCEPT ![p] = hb.headers]
                  /\ IF ~UrlParses(url)
                     THEN /\ result' = [result EXCEPT ![p] =
                                          Err(<<SendErrPrefix(a.op), "builder error">>)]
                          /\ pc' = [pc EXCEPT ![p] = "done"]
                          /\ UNCHANGED sent
                     ELSE /\ sent' = [sent EXCEPT ![p] =
                                        Append(@, [method |-> "POST", url |-> url,
                                                   headers |-> hb.headers, json |-> pl])]
                          /\ pc' = [pc EXCEPT ![p] = "await_send"]
                          /\ UNCHANGED result
    /\ UNCHANGED <<args, response, serde>>

\* a failed send retried once before the error is returned
SendFailsRetry(p) ==
    /\ pc[p] = "await_send"
    /\ IF Len(sent[p]) < 2
       THEN /\ sent' = [sent EXCEPT ![p] = Append(@, @[1])]
            /\ UNCHANGED <<pc, result, response>>
       ELSE /\ result' = [result EXCEPT ![p] =
                            Err(<<SendErrPrefix(args[p].op), "error sending request">>)]
            /\ response' = [response EXCEPT ![p].failed = TRUE]
            /\ pc' = [pc EXCEPT ![p] = "done"]
            /\ UNCHANGED sent
    /\ UNCHANGED <<args, payload, headers, serde>>

\* send().await returns Err: lines 89-90 (183-184)
SendFails(p) ==
    /\ pc[p] = "await_send"
    /\ result' = [result EXCEPT ![p] =
                    Err(<<SendErrPrefix(args[p].op), "error sending request">>)]
    /\ response' = [response EXCEPT ![p].failed = TRUE]
    /\ pc' = [pc EXCEPT ![p] = "done"]
    /\ UNCHANGED <<args, payload, headers, sent, serde>>

\* send().await returns the response; line 93 (187) picks the branch
SendCompletes(p, status) ==
    /\ pc[p] = "await_send"
    /\ response' = [response EXCEPT ![p].status = status]
    /\ pc' = [pc EXCEPT ![p] = IF ~is_success(status) THEN "await_text"
                                                      ELSE "await_json"]
    /\ UNCHANGED <<args, payload, headers, sent, result, serde>>

\* response.text().await completes: lines 94-102 (188-196)
TextCompletes(p, readable, body) ==
    /\ pc[p] = "await_text"
    /\ readable \/ body = <<>>
    /\ response' = [response EXCEPT ![p].read = TRUE, ![p].readable = readable,
                                    ![p].body = body]
    /\ result' = [result EXCEPT ![p] = ApiError(response[p].status, readable, body)]
    /\ pc' = [pc EXCEPT ![p] = "done"]
    /\ UNCHANGED <<args, payload, headers, sent, serde>>

\* response.json().await completes: lines 106-116 (200-210)
JsonCompletes(p, readable, body) ==
    /\ pc[p] = "await_json"
    /\ readable \/ body = <<>>
    /\ response' = [response EXCEPT ![p].read = TRUE, ![p].readable = readable,
                                    ![p].body = body]
    /\ result' = [result EXCEPT ![p] = ExtractId(args[p].op, readable, body)]
    /\ pc' = [pc EXCEPT ![p] = "done"]
    /\ UNCHANGED <<args, payload, headers, sent, serde>>

create_location_group(p) ==
    /\ pc[p] = "idle"
    /\ \E tok \in Tokens, req \in LocationGroupRequest, base \in BaseUrls :
          Invoke(p, "location", base, tok, req)

create_schedule_group(p) ==
    /\ pc[p] = "idle"
    /\ \E tok \in Tokens, req \in ScheduleGroupRequest, base \in BaseUrls :
          Invoke(p, "schedule", base, tok, req)

\* one invocation, every input
Next ==
    \/ create_location_group(1)
    \/ create_schedule_group(1)
    \/ Start(1)
    \/ SendFails(1)
    \/ \E status \in Statuses : SendCompletes(1, status)
    \/ \E readable \in BOOLEAN, body \in Bodies : TextCompletes(1, readable, body)
    \/ \E readable \in BOOLEAN, body \in Bodies : JsonCompletes(1, readable, body)

Spec == Init /\ [][Next]_vars

(* ------------------------- concurrent invocations --------------------- *)
ConcTokens == {<<97>>, <<9>>, <<10>>}
ConcBase == <<"https://", "nimbus.example">>
ConcLocationRequest == [description |-> "Test Group", location_ids |-> <<1, I64Max>>]
ConcScheduleRequest ==
    [description |-> "Test Schedule", location_group_id |-> 42,
     start_date |-> "2025-01-01", end_date |-> "2025-12-31", learning_period |-> "30"]
ConcStatuses == {201, 404}
ConcBodies ==
    {<<LBrace, Str("LocationGroupID"), Colon, Num(FALSE, 123, FALSE), RBrace>>,
     <<LBrace, Str("ScheduleGroupID"), Colon, Num(FALSE, 77, FALSE), RBrace>>}

\* any number of invocations in flight, each step of each call interleaved
NextConc ==
    \E p \in Calls :
        \/ \E tok \in ConcTokens : Invoke(p, "location", ConcBase, tok, ConcLocationRequest)
        \/ \E tok \in ConcTokens : Invoke(p, "schedule", ConcBase, tok, ConcScheduleRequest)
        \/ Start(p)
        \/ SendFails(p)
        \/ \E status \in ConcStatuses : SendCompletes(p, status)
        \/ \E readable \in BOOLEAN, body \in ConcBodies \cup {<<>>} :
              TextCompletes(p, readable, body)
        \/ \E readable \in BOOLEAN, body \in ConcBodies \cup {<<>>} :
              JsonCompletes(p, readable, body)

SpecConc == Init /\ [][NextConc]_vars

(* --------------------- derive(Serialize, Deserialize) ----------------- *)
\* an i64 written by serde_json: a number literal without fraction
I64Token(n) == Num(n < 0, IF n < 0 THEN -n ELSE n, FALSE)

RECURSIVE JoinIds(_)
JoinIds(ids) ==
    IF ids = <<>> THEN <<>>
    ELSE IF Len(ids) = 1 THEN <<I64Token(ids[1])>>
    ELSE <<I64Token(ids[1]), Comma>> \o JoinIds(Tail(ids))

\* serde_json::to_string(&LocationGroupRequest) with the field names renamed
to_string_camelCase(req) ==
    <<LBrace, Str("description"), Colon, Str(req.description), Comma,
      Str("locationIds"), Colon, LBracket>> \o JoinIds(req.location_ids)
      \o <<RBracket, RBrace>>

\* serde_json::to_string(&LocationGroupRequest): the fields in declaration order
to_string(req) ==
    <<LBrace, Str("description"), Colon, Str(req.description), Comma,
      Str("location_ids"), Colon, LBracket>> \o JoinIds(req.location_ids)
      \o <<RBracket, RBrace>>

\* serde_json::to_value(&LocationGroupRequest)
to_value(req) ==
    JObject([description |-> JString(req.description),
             location_ids |->
                JArray([i \in 1..Len(req.location_ids) |->
                          JNumber(NumberFromI64(req.location_ids[i]))])])

\* serde_json::to_value(&ScheduleGroupRequest)
to_value_schedule(req) ==
    JObject([description |-> JString(req.description),
             location_group_id |-> JNumber(NumberFromI64(req.location_group_id)),
             start_date |-> JString(req.start_date),
             end_date |-> JString(req.end_date),
             learning_period |-> JString(req.learning_period)])

\* serde_json::from_value::<LocationGroupRequest>: both fields must be present,
\* a string and a sequence of numbers that fit i64; other fields are ignored
from_value(v) ==
    IF /\ v.k = "Object"
       /\ {"description", "location_ids"} \subseteq DOMAIN v.o
       /\ v.o.description.k = "String"
       /\ v.o.location_ids.k = "Array"
       /\ \A i \in 1..Len(v.o.location_ids.a) : as_i64(v.o.location_ids.a[i]).some
    THEN [ok |-> TRUE,
          v |-> [description |-> v.o.description.s,
                 location_ids |-> [i \in 1..Len(v.o.location_ids.a) |->
                                     as_i64(v.o.location_ids.a[i]).x]]]
    ELSE Fail

\* serde_json::from_str::<LocationGroupRequest>
from_str(text) ==
    LET j == FromJson(text)
    IN IF j.ok THEN from_value(j.v) ELSE Fail

calls == <<pc, args, payload, headers, sent, response, result>>

\* test_location_group_request_serialization, for any request
SerializeToValue(req) ==
    /\ serde.stage = "none"
    /\ serde' = [stage |-> "value", in |-> req, value |-> to_value(req)]
    /\ UNCHANGED calls

\* test_schedule_group_request_serialization, for any request
SerializeScheduleToValue(req) ==
    /\ serde.stage = "none"
    /\ serde' = [stage |-> "schedule_value", in |-> req, value |-> to_value_schedule(req)]
    /\ UNCHANGED calls

SerializeToString(req) ==
    /\ serde.stage = "none"
    /\ serde' = [stage |-> "text", in |-> req, text |-> to_string(req)]
    /\ UNCHANGED calls

DeserializeFromValue ==
    /\ serde.stage = "value"
    /\ serde' = [stage |-> "back", in |-> serde.in, keys |-> DOMAIN serde.value.o,
                 out |-> from_value(serde.value)]
    /\ UNCHANGED calls

DeserializeFromString ==
    /\ serde.stage = "text"
    /\ serde' = [stage |-> "back", in |-> serde.in,
                 keys |-> {serde.text[i].s : i \in {j \in 2..Len(serde.text) :
                              serde.text[j].t = "str" /\ j < Len(serde.text)
                              /\ serde.text[j + 1] = Colon}},
                 out |-> from_str(serde.text)]
    /\ UNCHANGED calls

NextSerde ==
    \/ \E req \in LocationGroupRequest : SerializeToValue(req)
    \/ \E req \in LocationGroupRequest : SerializeToString(req)
    \/ \E req \in ScheduleGroupRequest : SerializeScheduleToValue(req)
    \/ DeserializeFromValue
    \/ DeserializeFromString

SpecSerde == Init /\ [][NextSerde]_vars

(* ============================== properties ============================ *)
\* msg has the parts of sub, in order and adjacent
Contains(msg, sub) ==
    \E i \in 1..(Len(msg) + 1) :
        /\ i + Len(sub) - 1 <= Len(msg)
        /\ SubSeq(msg, i, i + Len(sub) - 1) = sub

Done(p) == pc[p] = "done"
SuccessRange(status) == status \in 200..299
\* the body was read and is JSON text
BodyIsJson(p) == response[p].read /\ response[p].readable /\ FromJson(response[p].body).ok
BodyJson(p) == FromJson(response[p].body).v
HasField(v, field) == v.k = "Object" /\ field \in DOMAIN v.o
\* a JSON number written without fraction or exponent and kept as an integer
IsJsonInteger(v) == v.k = "Number" /\ v.n.v \in {"PosInt", "NegInt"}
HasIntegerField(p, field) ==
    /\ BodyIsJson(p)
    /\ HasField(BodyJson(p), field)
    /\ IsJsonInteger(BodyJson(p).o[field])
FieldInt(p, field) == BodyJson(p).o[field].n.i

\* C1 as stated: create_location_group succeeds exactly when the status is 2xx,
\* the body is JSON and it has an integer-valued LocationGroupID; the returned
\* location_group_id is then that integer.
C1_SuccessIffIntegerField ==
    \A p \in Calls :
        (Done(p) /\ args[p].op = "location") =>
            /\ result[p].ok <=>
                 (SuccessRange(response[p].status) /\ HasIntegerField(p, "LocationGroupID"))
            /\ result[p].ok =>
                 result[p].v.location_group_id = FieldInt(p, "LocationGroupID")

\* C1 amended: create_location_group succeeds exactly when the status is 2xx, the
\* body is JSON and it has a LocationGroupID that is a JSON integer within the
\* signed 64-bit range; the returned location_group_id is then that integer, and
\* every other outcome is an Err.
C1_SuccessIffI64Field ==
    \A p \in Calls :
        (Done(p) /\ args[p].op = "location") =>
            /\ result[p].ok <=>
                 /\ SuccessRange(response[p].status)
                 /\ HasIntegerField(p, "LocationGroupID")
                 /\ FieldInt(p, "LocationGroupID") \in I64Min..I64Max
            /\ result[p].ok =>
                 result[p].v.location_group_id = FieldInt(p, "LocationGroupID")

\* HTTP 200 with {"LocationGroupID": 123} has returned location_group_id = 123
C1_Witness ==
    \E p \in Calls :
        /\ Done(p) /\ args[p].op = "location"
        /\ response[p].status = 200
        /\ response[p].body =
             <<LBrace, Str("LocationGroupID"), Colon, Num(FALSE, 123, FALSE), RBrace>>
        /\ result[p] = Ok("location_group_id", 123)

\* C2: when the token is not a valid header value, the command fails and no POST
\* has been handed to the transport, at the return and at every earlier point.
C2_HeaderFailureBeforeNetwork ==
    \A p \in Calls :
        (pc[p] # "idle" /\ ~HeaderValue_from_str(args[p].token).ok) =>
            /\ sent[p] = <<>>
            /\ pc[p] \in {"start", "done"}
            /\ Done(p) => ~result[p].ok

\* both commands have returned a header error with nothing sent
C2_Witness ==
    \E o \in {"location", "schedule"} :
        \E p \in Calls :
            /\ Done(p) /\ args[p].op = o
            /\ ~HeaderValue_from_str(args[p].token).ok
            /\ UrlParses(UrlOf(o, args[p].base_url))
            /\ ~result[p].ok /\ sent[p] = <<>>

\* C3 as stated: whatever the outcome, a returned invocation has issued exactly
\* one POST.
C3_ExactlyOneRequest ==
    \A p \in Calls : Done(p) => Len(sent[p]) = 1

\* C3 amended: an invocation never issues more than one POST (no retries); by the
\* time it returns it has issued exactly one when the token is a valid header
\* value and the URL can be built, and none otherwise.
C3_AtMostOneRequest ==
    \A p \in Calls :
        /\ Len(sent[p]) <= 1
        /\ pc[p] \in {"await_send", "await_text", "await_json"} => Len(sent[p]) = 1
        /\ Done(p) =>
             (Len(sent[p]) = 1 <=>
                 /\ HeaderValue_from_str(args[p].token).ok
                 /\ UrlParses(UrlOf(args[p].op, args[p].base_url)))

\* a transport failure has been returned after the single POST
C3_Witness ==
    \E p \in Calls :
        /\ Done(p)
        /\ ~result[p].ok /\ result[p].msg[2] = "error sending request"
        /\ Len(sent[p]) = 1

\* C4: a status outside 2xx gives an Err whose text has the numeric status and the
\* body as read, or "Unknown error" when the body cannot be read, whatever the
\* body is.
C4_NonSuccessStatus ==
    \A p \in Calls :
        (Done(p) /\ response[p].read /\ ~SuccessRange(response[p].status)) =>
            /\ ~result[p].ok
            /\ result[p].msg[1] = "API error ("
            /\ Contains(result[p].msg, <<ToString(response[p].status)>>)
            /\ IF response[p].readable
               THEN Contains(result[p].msg, Text(response[p].body))
               ELSE Contains(result[p].msg, <<"Unknown error">>)

\* HTTP 404 whose body is JSON with the expected identifier has failed
C4_Witness ==
    \E p \in Calls :
        /\ Done(p) /\ args[p].op = "location"
        /\ response[p].status = 404 /\ response[p].readable
        /\ HasIntegerField(p, "LocationGroupID")
        /\ ~result[p].ok
        /\ Contains(result[p].msg, <<"404">>)

\* C5: a 2xx JSON body without the expected identifier, or with a non-integer one,
\* gives "<field> not found in response" with the command's own field; a 2xx body
\* that is not JSON gives a parse error.
C5_MissingFieldOrParseError ==
    \A p \in Calls :
        (Done(p) /\ SuccessRange(response[p].status)
                 /\ response[p].read /\ response[p].readable) =>
            LET field == IF args[p].op = "location" THEN "LocationGroupID"
                                                    ELSE "ScheduleGroupID"
            IN /\ (BodyIsJson(p) /\ ~HasIntegerField(p, field)) =>
                     result[p] = Err(<<field, " not found in response">>)
               /\ ~BodyIsJson(p) =>
                     (~result[p].ok /\ result[p].msg[1] = "Failed to parse response: ")

\* create_schedule_group got HTTP 200 with a body that only has LocationGroupID
C5_Witness ==
    \E p \in Calls :
        /\ Done(p) /\ args[p].op = "schedule"
        /\ response[p].status = 200
        /\ HasIntegerField(p, "LocationGroupID")
        /\ ~HasField(BodyJson(p), "ScheduleGroupID")
        /\ result[p] = Err(<<"ScheduleGroupID", " not found in response">>)

\* C6: the payload of create_location_group has Description, Active = true and a
\* Locations array with one {"LocationID": id} per input id, in input order.
C6_LocationsPayload ==
    \A p \in Calls :
        (pc[p] \notin {"idle", "start"} /\ args[p].op = "location") =>
            LET ids == args[p].request.location_ids
                o == payload[p].o
            IN /\ payload[p].k = "Object"
               /\ DOMAIN o = {"Description", "Active", "Locations"}
               /\ o.Description = JString(args[p].request.description)
               /\ o.Active = JBool(TRUE)
               /\ o.Locations.k = "Array"
               /\ Len(o.Locations.a) = Len(ids)
               /\ \A i \in 1..Len(ids) :
                    /\ o.Locations.a[i].k = "Object"
                    /\ DOMAIN o.Locations.a[i].o = {"LocationID"}
                    /\ o.Locations.a[i].o.LocationID.k = "Number"
                    /\ o.Locations.a[i].o.LocationID.n.i = ids[i]
               /\ \A i \in 1..Len(sent[p]) : sent[p][i].json = payload[p]

\* a POST went out for two different ids in a given order
C6_Witness ==
    \E p \in Calls :
        /\ args[p].op = "location" /\ Len(sent[p]) = 1
        /\ args[p].request.location_ids = <<I64Max, 1>>

\* C7: the payload of create_schedule_group has exactly one AdhocFields entry,
\* adhoc_LearningPeriod with the learning_period text as given, and the two dates
\* as given under GroupStartDate and GroupEndDate; no input is rejected locally.
C7_SchedulePayload ==
    \A p \in Calls :
        (pc[p] \notin {"idle", "start"} /\ args[p].op = "schedule") =>
            LET req == args[p].request
                o == payload[p].o
            IN /\ payload[p].k = "Object"
               /\ o.AdhocFields.k = "Array"
               /\ Len(o.AdhocFields.a) = 1
               /\ o.AdhocFields.a[1] =
                    JObject([FieldName |-> JString("adhoc_LearningPeriod"),
                             Value |-> JString(req.learning_period)])
               /\ o.GroupStartDate = JString(req.start_date)
               /\ o.GroupEndDate = JString(req.end_date)
               /\ \A i \in 1..Len(sent[p]) : sent[p][i].json = payload[p]
               /\ (HeaderValue_from_str(args[p].token).ok
                     /\ UrlParses(UrlOf("schedule", args[p].base_url))) => Len(sent[p]) = 1

\* a POST went out with an empty learning period, a start date that is no date
\* and an end date
C7_Witness ==
    \E p \in Calls :
        /\ args[p].op = "schedule" /\ Len(sent[p]) = 1
        /\ args[p].request.learning_period = ""
        /\ args[p].request.start_date = "yesterday"
        /\ args[p].request.end_date = "2025-01-01"

\* C10: "Bearer " + token is a valid header value exactly when token is, and the
\* token value is checked first, so a header failure is always reported as
\* "Invalid token header" and never as "Invalid authorization header".
C10_AuthorizationBranchUnreachable ==
    \A p \in Calls :
        pc[p] # "idle" =>
            /\ HeaderValue_from_str(Bearer(args[p].token)).ok
                 <=> HeaderValue_from_str(args[p].token).ok
            /\ (Done(p) /\ ~HeaderValue_from_str(args[p].token).ok) =>
                 (~result[p].ok /\ result[p].msg[1] = "Invalid token header: ")
            /\ (Done(p) /\ ~result[p].ok) =>
                 result[p].msg[1] # "Invalid authorization header: "

\* a token with a line feed has been rejected
C10_Witness ==
    \E p \in Calls :
        /\ Done(p)
        /\ \E i \in 1..Len(args[p].token) : args[p].token[i] = 10
        /\ result[p] = Err(<<"Invalid token header: ", "failed to parse header value">>)

\* what an invocation with arguments a returns when it runs alone and the
\* transport and the server answer it with r
RunAlone(a, r) ==
    LET hb == BuildHeaders(a.token)
    IN IF ~hb.ok THEN Err(hb.msg)
       ELSE IF ~UrlParses(UrlOf(a.op, a.base_url))
            THEN Err(<<SendErrPrefix(a.op), "builder error">>)
       ELSE IF r.failed THEN Err(<<SendErrPrefix(a.op), "error sending request">>)
       ELSE IF ~is_success(r.status) THEN ApiError(r.status, r.readable, r.body)
       ELSE ExtractId(a.op, r.readable, r.body)

Local(p) == <<pc[p], args[p], payload[p], headers[p], sent[p], response[p], result[p]>>

C8_OwnArgumentsOnly ==
    \A p \in Calls :
        /\ pc[p] \notin {"idle", "start"} =>
             /\ payload[p] = PayloadOf(args[p])
             /\ BuildHeaders(args[p].token).ok =>
                  headers[p] = BuildHeaders(args[p].token).headers
             /\ \A i \in 1..Len(sent[p]) :
                  sent[p][i] = [method |-> "POST",
                                url |-> UrlOf(args[p].op, args[p].base_url),
                                headers |-> BuildHeaders(args[p].token).headers,
                                json |-> PayloadOf(args[p])]
        /\ Done(p) => result[p] = RunAlone(args[p], response[p])

C8_StepTouchesOneCall ==
    \A p, q \in Calls : (p # q /\ Local(p)' # Local(p)) => Local(q)' = Local(q)

\* C8: in every interleaving of concurrent calls, each call's headers, payload,
\* request and result are those its own arguments and the answer to its own
\* request give when it runs alone, and a step of one call changes nothing of
\* another call.
C8_NoSharedState == []C8_OwnArgumentsOnly /\ [][C8_StepTouchesOneCall]_vars

\* two calls with different tokens and different commands have both returned Ok
C8_Witness ==
    \E p, q \in Calls :
        /\ p < q
        /\ Done(p) /\ Done(q)
        /\ args[p].op # args[q].op
        /\ args[p].token = <<97>> /\ args[q].token = <<9>>
        /\ result[p].ok /\ result[q].ok

\* C9: to_string then from_str, and to_value then from_value, give back the
\* LocationGroupRequest: the same description and the same location_ids, in
\* order; the serialized fields are named description and location_ids.
C9_RoundTrip ==
    serde.stage = "back" =>
        /\ serde.keys = {"description", "location_ids"}
        /\ serde.out.ok
        /\ serde.out.v.description = serde.in.description
        /\ Len(serde.out.v.location_ids) = Len(serde.in.location_ids)
        /\ \A i \in 1..Len(serde.in.location_ids) :
             serde.out.v.location_ids[i] = serde.in.location_ids[i]

\* a request with the smallest i64 twice and an empty description came back
C9_Witness ==
    /\ serde.stage = "back"
    /\ serde.in = [description |-> "", location_ids |-> <<I64Min, I64Min>>]
    /\ serde.out.ok
====
